---- MODULE Spec2Model ----
(***************************************************************************)
(* Model of vcenter_lifecycle: the session client (client.py), the         *)
(* download-settings data model and reconciliation operations              *)
(* (downloads.py) and the command line front end (cli.py).                 *)
(*                                                                         *)
(* One CLI process runs at a time against one appliance; the appliance     *)
(* holds the policy document `remote`.  Every HTTP request is one step, so *)
(* that a write by a second, independent session client (ExternalWrite)    *)
(* can land between any two requests of the modelled client.               *)
(* Python dicts are functions over their keys; a key that is absent from   *)
(* the dict is absent from the DOMAIN.                                     *)
(***************************************************************************)
EXTENDS Integers, Sequences, FiniteSets, TLC

VARIABLES
    remote,      \* the appliance's policy document
    lastWriter,  \* ghost: who wrote `remote` last ("init", "external" or a command name)
    nInv,        \* number of CLI invocations started
    nExt,        \* number of writes by the other session client
    pc,          \* position of the running CLI process
    cmd,         \* parsed command line (args namespace / YAML config)
    given,       \* host/username/password from flags or environment
    session_id,  \* VCenterClient._session_id
    current,     \* `current` local of the partial-update operations
    overwritten, \* ghost: the remote document replaced by this process's PUT
    written,     \* JSON body of this process's PUT
    result,      \* value returned by the reconciliation operation
    err,         \* exception raised inside the with-block / handler
    raised,      \* exception that reached the top level of the process
    exitCode,    \* process exit status, -1 while running
    http,        \* requests issued by this process, in order
    calls        \* login()/logout() calls on the client, in order

vars == <<remote, lastWriter, nInv, nExt, pc, cmd, given, session_id, current,
          overwritten, written, result, err, raised, exitCode, http, calls>>

-----------------------------------------------------------------------------
(* Bounds *)

MaxInvocations == 2
MaxExternal == 1
MaxCalls == 5

-----------------------------------------------------------------------------
(* Paths and sentinels *)

_UPDATE_POLICY_PATH == "/api/appliance/update/policy"
_DEPOT_CONTENT_PATH == "/api/content/subscribed-library"
SessionPath == "/api/session"

None == "None"
NoDoc == [none |-> TRUE]

Truthy(s) == s /= None /\ s /= ""

Tokens == {"tok"}
SessionTokens == {"", "tok", "tok2"}

Get(d, k, default) == IF k \in DOMAIN d THEN d[k] ELSE default

Req(method, path, arg, ok) == [method |-> method, path |-> path, arg |-> arg, ok |-> ok]

-----------------------------------------------------------------------------
(* Settings model: downloads.py *)

ProxySettings(enabled, server, port, username, password) ==
    [enabled |-> enabled, server |-> server, port |-> port,
     username |-> username, password |-> password]

ProxySettings_to_dict(p) ==
    IF p.enabled
    THEN IF p.username /= ""
         THEN [enabled |-> p.enabled, server |-> p.server, port |-> p.port,
               username |-> p.username, password |-> p.password]
         ELSE [enabled |-> p.enabled, server |-> p.server, port |-> p.port]
    ELSE [enabled |-> p.enabled]

_VALID_DAYS == {"EVERYDAY", "MONDAY", "TUESDAY", "WEDNESDAY",
                "THURSDAY", "FRIDAY", "SATURDAY", "SUNDAY"}

DownloadSchedule(enabled, day, hour, minute) ==
    [enabled |-> enabled, day |-> day, hour |-> hour, minute |-> minute]
\* __post_init__ with the upper bound of hour off by one
DownloadSchedule_post_init_hour24(s) ==
    IF s.day \notin _VALID_DAYS THEN "ValueError"
    ELSE IF ~(0 <= s.hour /\ s.hour <= 24) THEN "ValueError"
    ELSE IF ~(0 <= s.minute /\ s.minute <= 59) THEN "ValueError"
    ELSE "none"

DownloadSchedule_post_init(s) ==
    IF s.day \notin _VALID_DAYS THEN "ValueError"
    ELSE IF ~(0 <= s.hour /\ s.hour <= 23) THEN "ValueError"
    ELSE IF ~(0 <= s.minute /\ s.minute <= 59) THEN "ValueError"
    ELSE "none"

DownloadSchedule_to_dict(s) ==
    [enabled |-> s.enabled, day |-> s.day, hour |-> s.hour, minute |-> s.minute]

DownloadSource(source_type, umds_url) ==
    [source_type |-> source_type, umds_url |-> umds_url]

DownloadSource_post_init(s) ==
    IF s.source_type \notin {"INTERNET", "UMDS"} THEN "ValueError" ELSE "none"

DefaultSchedule == DownloadSchedule(TRUE, "EVERYDAY", 2, 0)
DefaultSource == DownloadSource("INTERNET", "")
DefaultProxy == ProxySettings(FALSE, "", 80, "", "")

DownloadSettings(auto_check, auto_download, schedule, source, proxy) ==
    [auto_check_enabled |-> auto_check, auto_download_enabled |-> auto_download,
     schedule |-> schedule, source |-> source, proxy |-> proxy]

-----------------------------------------------------------------------------
(* Reconciliation operations: downloads.py *)
\* configure_download_settings setting policy["proxy"] without the enabled test
configure_policy_always_proxy(settings) ==
    [custom_URL |-> "", auto_stage |-> settings.auto_download_enabled,
     check_schedule |-> <<DownloadSchedule_to_dict(settings.schedule)>>,
     username |-> "", password |-> "",
     proxy |-> ProxySettings_to_dict(settings.proxy)]

\* configure_download_settings, the document handed to client.put
configure_policy(settings) ==
    IF settings.proxy.enabled
    THEN [custom_URL |-> "", auto_stage |-> settings.auto_download_enabled,
          check_schedule |-> <<DownloadSchedule_to_dict(settings.schedule)>>,
          username |-> "", password |-> "",
          proxy |-> ProxySettings_to_dict(settings.proxy)]
    ELSE [custom_URL |-> "", auto_stage |-> settings.auto_download_enabled,
          check_schedule |-> <<DownloadSchedule_to_dict(settings.schedule)>>,
          username |-> "", password |-> ""]
\* the registration guard without its test of the URL
configure_registers_any_url(settings) ==
    settings.source.source_type = "UMDS"

\* configure_download_settings, the condition guarding _register_umds_depot
configure_registers(settings) ==
    settings.source.source_type = "UMDS" /\ settings.source.umds_url /= ""

\* _register_umds_depot, the subscription_url of the creation spec
_register_umds_depot_url(depot_url) == depot_url
\* _register_umds_depot without its try/except
_register_umds_depot_raises_unguarded(ok) == ~ok

\* _register_umds_depot: does a failed POST raise out of the helper?
_register_umds_depot_raises(ok) == FALSE

enable_auto_download_settings ==
    DownloadSettings(TRUE, TRUE, DefaultSchedule, DefaultSource, DefaultProxy)

disable_auto_download_settings ==
    DownloadSettings(FALSE, FALSE, DownloadSchedule(FALSE, "EVERYDAY", 2, 0),
                     DefaultSource, DefaultProxy)
\* the read value dropped: auto_download_enabled left at its default
current_auto_stage_ignored(cur) == TRUE

\* current.get("auto_stage", True)
current_auto_stage(cur) == Get(cur, "auto_stage", TRUE)

set_download_schedule_settings(cur, day, hour, minute) ==
    DownloadSettings(TRUE, current_auto_stage(cur),
                     DownloadSchedule(TRUE, day, hour, minute),
                     DefaultSource, DefaultProxy)
\* set_proxy as a merge that carries the remote schedule forward
set_proxy_settings_merging(cur, server, port, username, password) ==
    DownloadSettings(TRUE, Get(cur, "auto_stage", TRUE),
                     IF "check_schedule" \in DOMAIN cur
                     THEN cur.check_schedule[1] ELSE DefaultSchedule,
                     DefaultSource,
                     ProxySettings(TRUE, server, port, username, password))

set_proxy_settings(cur, server, port, username, password) ==
    DownloadSettings(TRUE, current_auto_stage(cur), DefaultSchedule, DefaultSource,
                     ProxySettings(TRUE, server, port, username, password))

clear_proxy_settings(cur) ==
    DownloadSettings(TRUE, current_auto_stage(cur), DefaultSchedule, DefaultSource,
                     ProxySettings(FALSE, "", 80, "", ""))

set_download_source_settings(cur, source_type, umds_url) ==
    DownloadSettings(TRUE, current_auto_stage(cur), DefaultSchedule,
                     DownloadSource(source_type, umds_url), DefaultProxy)

\* cmd_apply, the DownloadSettings built from the YAML document
cmd_apply_settings(cfg) ==
    DownloadSettings(cfg.auto_check_enabled, cfg.auto_download_enabled,
                     cfg.schedule, cfg.source, cfg.proxy)

PartialOps == {"set-schedule", "set-proxy", "clear-proxy", "set-source"}
ReadFirst == PartialOps \cup {"show"}

\* The DownloadSettings value the handler of command c passes to
\* configure_download_settings, given the document cur it read.
SettingsOf(c, cur) ==
    CASE c.name = "apply"        -> cmd_apply_settings(c.cfg)
      [] c.name = "enable-auto"  -> enable_auto_download_settings
      [] c.name = "disable-auto" -> disable_auto_download_settings
      [] c.name = "set-schedule" ->
            set_download_schedule_settings(cur, c.day, c.hour, c.minute)
      [] c.name = "set-proxy"    ->
            set_proxy_settings(cur, c.server, c.port, c.proxy_user, c.proxy_password)
      [] c.name = "clear-proxy"  -> clear_proxy_settings(cur)
      [] c.name = "set-source"   -> set_download_source_settings(cur, c.type, c.umds_url)
      [] OTHER                   -> enable_auto_download_settings

\* Validation raised while the settings value is constructed.
ConstructionError(s) ==
    IF DownloadSchedule_post_init(s.schedule) /= "none" THEN "ValueError"
    ELSE DownloadSource_post_init(s.source)

-----------------------------------------------------------------------------
(* Inputs *)

Creds(h, u, p) == [host |-> h, username |-> u, password |-> p]

GivenChoices ==
    {Creds("vc", "admin", "pw"), Creds("", "admin", "pw"),
     Creds("vc", "", "pw"), Creds("vc", "admin", ""), Creds("", "", "")}

Config(exists, vc, auto, schedule, source, proxy) ==
    [exists |-> exists, vcenter |-> vc,
     auto_check_enabled |-> TRUE, auto_download_enabled |-> auto,
     schedule |-> schedule, source |-> source, proxy |-> proxy]

NoConfig == Config(FALSE, Creds("", "", ""), TRUE, DefaultSchedule, DefaultSource, DefaultProxy)

Cmd(name, day, hour, minute, server, port, puser, ppass, type, url, cfg) ==
    [name |-> name, day |-> day, hour |-> hour, minute |-> minute,
     server |-> server, port |-> port, proxy_user |-> puser, proxy_password |-> ppass,
     type |-> type, umds_url |-> url, cfg |-> cfg]

Plain(name) == Cmd(name, "EVERYDAY", 2, 0, "", 8080, "", "", "INTERNET", "", NoConfig)

SchedDays == {"EVERYDAY", "SUNDAY", "FUNDAY", "monday", ""}
SchedHours == {-1, 0, 23, 24}
SchedMinutes == {-1, 0, 59, 60}
DepotUrl == "https://umds.local/depot"

SchedCmd(d, h, m) == Cmd("set-schedule", d, h, m, "", 8080, "", "", "INTERNET", "", NoConfig)

\* --day MONDAY --hour 3 --minute 30, and every one-argument variation of it
ScheduleCmds ==
    {SchedCmd("MONDAY", 3, 30)}
    \cup {SchedCmd(d, 3, 30) : d \in SchedDays}
    \cup {SchedCmd("MONDAY", h, 30) : h \in SchedHours}
    \cup {SchedCmd("MONDAY", 3, m) : m \in SchedMinutes}

ProxyCmds ==
    {Cmd("set-proxy", "EVERYDAY", 2, 0, "proxy.corp.com", 8080, u, w, "INTERNET", "", NoConfig) :
        u \in {"", "u"}, w \in {"", "secret"}}

SourceCmds ==
    {Cmd("set-source", "EVERYDAY", 2, 0, "", 8080, "", "", t, u, NoConfig) :
        t \in {"INTERNET", "UMDS"}, u \in {"", DepotUrl}}

ConfigSchedules ==
    {DefaultSchedule, DownloadSchedule(FALSE, "SUNDAY", 23, 59),
     DownloadSchedule(TRUE, "EVERYDAY", 24, 0)}
ConfigSources ==
    {DefaultSource, DownloadSource("UMDS", DepotUrl), DownloadSource("UMDS", ""),
     DownloadSource("FTP", DepotUrl)}
ConfigProxies ==
    {ProxySettings(FALSE, "old.corp.com", 3128, "u", "secret"),
     ProxySettings(TRUE, "proxy.corp.com", 8080, "", "secret"),
     ProxySettings(TRUE, "proxy.corp.com", 8080, "u", "secret")}

ApplyCmd(cfg) == Cmd("apply", "EVERYDAY", 2, 0, "", 8080, "", "", "INTERNET", "", cfg)

ApplyCmds ==
    {ApplyCmd(Config(TRUE, Creds("vc", "admin", "pw"), TRUE, DefaultSchedule, so, pr)) :
        so \in ConfigSources, pr \in ConfigProxies}
    \cup {ApplyCmd(Config(TRUE, Creds("vc", "admin", "pw"), FALSE, sc, DefaultSource, DefaultProxy)) :
        sc \in ConfigSchedules}
    \cup {ApplyCmd(Config(TRUE, Creds("vc", "", ""), TRUE, DefaultSchedule,
                          DefaultSource, DefaultProxy)),
          ApplyCmd(NoConfig)}

Commands ==
    {Plain("show"), Plain("enable-auto"), Plain("disable-auto"), Plain("clear-proxy")}
    \cup ScheduleCmds \cup ProxyCmds \cup SourceCmds \cup ApplyCmds

\* Policy documents the appliance may hold before the first invocation.
InitPolicies ==
    {[custom_URL |-> "", check_schedule |-> <<DownloadSchedule_to_dict(DefaultSchedule)>>,
      username |-> "", password |-> ""],
     [custom_URL |-> "", auto_stage |-> FALSE,
      check_schedule |-> <<DownloadSchedule(TRUE, "TUESDAY", 4, 15)>>,
      username |-> "", password |-> "",
      proxy |-> [enabled |-> TRUE, server |-> "old.corp.com", port |-> 3128]],
     [custom_URL |-> "", auto_stage |-> TRUE,
      check_schedule |-> <<DownloadSchedule_to_dict(DefaultSchedule)>>,
      username |-> "", password |-> ""]}

\* Documents the second session client writes: its own configure_download_settings.
ExternalSettings ==
    {disable_auto_download_settings,
     DownloadSettings(TRUE, TRUE, DownloadSchedule(TRUE, "FRIDAY", 5, 45), DefaultSource,
                      ProxySettings(TRUE, "other.corp.com", 8080, "", ""))}

\* Values of --host/--username/--password (or the environment) tried with command c.
GivenFor(c) ==
    IF c.name = "apply" THEN {Creds("", "", "")} ELSE GivenChoices

-----------------------------------------------------------------------------
(* Session client: client.py *)

login(ok, tok) ==
    /\ calls' = Append(calls, "login")
    /\ http' = Append(http, Req("POST", SessionPath, "", ok))
    /\ session_id' = IF ok THEN tok ELSE session_id
\* logout without the test of _session_id
logout_unguarded(ok) ==
    /\ calls' = Append(calls, "logout")
    /\ http' = Append(http, Req("DELETE", SessionPath, "", ok))
    /\ session_id' = None

logout(ok) ==
    /\ calls' = Append(calls, "logout")
    /\ IF Truthy(session_id)
       THEN /\ http' = Append(http, Req("DELETE", SessionPath, "", ok))
            /\ session_id' = None
       ELSE UNCHANGED <<http, session_id>>
\* __exit__ returning True
exit_suppresses_true == TRUE

\* VCenterClient.__exit__ returns False: the exception is not suppressed.
exit_suppresses == FALSE

\* client.get / session.get + raise_for_status, as used by get_download_settings
get_download_settings(ok) ==
    http' = Append(http, Req("GET", _UPDATE_POLICY_PATH, "", ok))

-----------------------------------------------------------------------------
(* Command line: cli.py *)

_build_client(g) ==
    IF g.host = "" \/ g.username = "" \/ g.password = "" THEN "SystemExit" ELSE "none"

\* cmd_apply up to the with-statement: config file check, then settings construction
cmd_apply_start(cfg) ==
    IF ~cfg.exists THEN "SystemExit"
    ELSE ConstructionError(cmd_apply_settings(cfg))

\* What stops handler c before its client is entered.
handler_start(c, g) ==
    IF c.name = "apply" THEN cmd_apply_start(c.cfg) ELSE _build_client(g)

FirstStep(c) == IF c.name \in ReadFirst THEN "read" ELSE "put"

\* main(): parse the command line, run the handler up to the with-statement
Main(c, g) ==
    /\ pc \in {"start", "exited"}
    /\ nInv < MaxInvocations
    /\ nInv' = nInv + 1
    /\ cmd' = c
    /\ given' = g
    /\ session_id' = None
    /\ current' = NoDoc
    /\ overwritten' = NoDoc
    /\ written' = NoDoc
    /\ result' = NoDoc
    /\ http' = <<>>
    /\ calls' = <<>>
    /\ err' = "none"
    /\ LET e == handler_start(c, g) IN
         /\ raised' = e
         /\ pc' = IF e = "none" THEN "login" ELSE "exited"
         /\ exitCode' = IF e = "none" THEN -1 ELSE 1
    /\ UNCHANGED <<remote, lastWriter, nExt>>

\* VCenterClient.__enter__: login(); a failed login leaves the with-statement
\* before __exit__ is armed.
Enter(ok, tok) ==
    /\ pc = "login"
    /\ login(ok, tok)
    /\ IF ok
       THEN /\ pc' = FirstStep(cmd)
            /\ UNCHANGED <<raised, exitCode>>
       ELSE /\ pc' = "exited"
            /\ raised' = "HTTPError"
            /\ exitCode' = 1
    /\ UNCHANGED <<remote, lastWriter, nInv, nExt, cmd, given, current,
                   overwritten, written, result, err>>

\* get_download_settings at the start of show and of the partial-update
\* operations, followed by the construction of the DownloadSettings value.
Read(ok) ==
    /\ pc = "read"
    /\ get_download_settings(ok)
    /\ IF ~ok
       THEN /\ err' = "HTTPError"
            /\ pc' = "release"
            /\ UNCHANGED <<current, result>>
       ELSE IF cmd.name = "show"
       THEN /\ result' = remote
            /\ pc' = "release"
            /\ UNCHANGED <<current, err>>
       ELSE /\ current' = remote
            /\ err' = ConstructionError(SettingsOf(cmd, remote))
            /\ pc' = IF err' = "none" THEN "put" ELSE "release"
            /\ UNCHANGED result
    /\ UNCHANGED <<remote, lastWriter, nInv, nExt, cmd, given, session_id,
                   overwritten, written, raised, exitCode, calls>>
\* configure_download_settings with an optimistic-concurrency check before
\* the write: a partial update whose read is stale raises instead of writing
Put_if_unchanged(ok) ==
    /\ pc = "put"
    /\ LET settings == SettingsOf(cmd, current)
           policy == configure_policy(settings)
           stale == cmd.name \in PartialOps /\ remote /= current
       IN /\ http' = Append(http, Req("PUT", _UPDATE_POLICY_PATH, "", ok))
          /\ written' = policy
          /\ IF ok /\ ~stale
             THEN /\ remote' = policy
                  /\ overwritten' = remote
                  /\ lastWriter' = cmd.name
                  /\ pc' = IF configure_registers(settings) THEN "register" ELSE "reread"
                  /\ UNCHANGED err
             ELSE /\ err' = "HTTPError"
                  /\ pc' = "release"
                  /\ UNCHANGED <<remote, overwritten, lastWriter>>
    /\ UNCHANGED <<nInv, nExt, cmd, given, session_id, current, result,
                   raised, exitCode, calls>>

\* configure_download_settings: build the policy and client.put it
Put(ok) ==
    /\ pc = "put"
    /\ LET settings == SettingsOf(cmd, current)
           policy == configure_policy(settings)
       IN /\ http' = Append(http, Req("PUT", _UPDATE_POLICY_PATH, "", ok))
          /\ written' = policy
          /\ IF ok
             THEN /\ remote' = policy
                  /\ overwritten' = remote
                  /\ lastWriter' = cmd.name
                  /\ pc' = IF configure_registers(settings) THEN "register" ELSE "reread"
                  /\ UNCHANGED err
             ELSE /\ err' = "HTTPError"
                  /\ pc' = "release"
                  /\ UNCHANGED <<remote, overwritten, lastWriter>>
    /\ UNCHANGED <<nInv, nExt, cmd, given, session_id, current, result,
                   raised, exitCode, calls>>

\* _register_umds_depot
Register(ok) ==
    /\ pc = "register"
    /\ http' = Append(http, Req("POST", _DEPOT_CONTENT_PATH,
                                _register_umds_depot_url(SettingsOf(cmd, current).source.umds_url), ok))
    /\ IF _register_umds_depot_raises(ok)
       THEN err' = "HTTPError" /\ pc' = "release"
       ELSE pc' = "reread" /\ UNCHANGED err
    /\ UNCHANGED <<remote, lastWriter, nInv, nExt, cmd, given, session_id, current,
                   overwritten, written, result, raised, exitCode, calls>>

\* configure_download_settings: return get_download_settings(client)
Reread(ok) ==
    /\ pc = "reread"
    /\ get_download_settings(ok)
    /\ IF ok
       THEN result' = remote /\ UNCHANGED err
       ELSE err' = "HTTPError" /\ UNCHANGED result
    /\ pc' = "release"
    /\ UNCHANGED <<remote, lastWriter, nInv, nExt, cmd, given, session_id, current,
                   overwritten, written, raised, exitCode, calls>>

\* VCenterClient.__exit__: logout(), then the pending exception propagates
Release(ok) ==
    /\ pc = "release"
    /\ logout(ok)
    /\ raised' = IF exit_suppresses THEN "none" ELSE err
    /\ exitCode' = IF raised' = "none" THEN 0 ELSE 1
    /\ pc' = "exited"
    /\ UNCHANGED <<remote, lastWriter, nInv, nExt, cmd, given, current,
                   overwritten, written, result, err>>

\* The PUT of a second, independent session client lands at the appliance.
ExternalWrite(s) ==
    /\ nExt < MaxExternal
    /\ nExt' = nExt + 1
    /\ remote' = configure_policy(s)
    /\ lastWriter' = "external"
    /\ UNCHANGED <<nInv, pc, cmd, given, session_id, current, overwritten, written,
                   result, err, raised, exitCode, http, calls>>

Init ==
    /\ remote \in InitPolicies
    /\ lastWriter = "init"
    /\ nInv = 0
    /\ nExt = 0
    /\ pc = "start"
    /\ cmd = Plain("show")
    /\ given = Creds("", "", "")
    /\ session_id = None
    /\ current = NoDoc
    /\ overwritten = NoDoc
    /\ written = NoDoc
    /\ result = NoDoc
    /\ err = "none"
    /\ raised = "none"
    /\ exitCode = -1
    /\ http = <<>>
    /\ calls = <<>>

Next ==
    \/ \E c \in Commands : \E g \in GivenFor(c) : Main(c, g)
    \/ \E ok \in BOOLEAN : \E tok \in Tokens : Enter(ok, tok)
    \/ \E ok \in BOOLEAN : Read(ok)
    \/ \E ok \in BOOLEAN : Put(ok)
    \/ \E ok \in BOOLEAN : Register(ok)
    \/ \E ok \in BOOLEAN : Reread(ok)
    \/ \E ok \in BOOLEAN : Release(ok)
    \/ \E s \in ExternalSettings : ExternalWrite(s)

Spec == Init /\ [][Next]_vars


-----------------------------------------------------------------------------
(* The session client driven directly: any sequence of login() and logout() *)

SessLogin(ok, tok) ==
    /\ pc = "api"
    /\ Len(calls) < MaxCalls
    /\ login(ok, tok)
    /\ UNCHANGED <<remote, lastWriter, nInv, nExt, pc, cmd, given, current,
                   overwritten, written, result, err, raised, exitCode>>

SessLogout(ok) ==
    /\ pc = "api"
    /\ Len(calls) < MaxCalls
    /\ logout(ok)
    /\ UNCHANGED <<remote, lastWriter, nInv, nExt, pc, cmd, given, current,
                   overwritten, written, result, err, raised, exitCode>>

InitSession ==
    /\ remote \in InitPolicies
    /\ lastWriter = "init"
    /\ nInv = 0
    /\ nExt = 0
    /\ pc = "api"
    /\ cmd = Plain("show")
    /\ given = Creds("vc", "admin", "pw")
    /\ session_id = None
    /\ current = NoDoc
    /\ overwritten = NoDoc
    /\ written = NoDoc
    /\ result = NoDoc
    /\ err = "none"
    /\ raised = "none"
    /\ exitCode = -1
    /\ http = <<>>
    /\ calls = <<>>

NextSession ==
    \/ \E ok \in BOOLEAN : \E tok \in SessionTokens : SessLogin(ok, tok)
    \/ \E ok \in BOOLEAN : SessLogout(ok)

SpecSession == InitSession /\ [][NextSession]_vars

-----------------------------------------------------------------------------
(* Vocabulary of the properties *)

TypeOK ==
    /\ pc \in {"start", "login", "read", "put", "register", "reread", "release",
               "exited", "api"}
    /\ err \in {"none", "HTTPError", "ValueError"}
    /\ raised \in {"none", "HTTPError", "ValueError", "SystemExit"}
    /\ exitCode \in {-1, 0, 1}
    /\ nInv \in 0..(MaxInvocations + 1)

DefaultScheduleDict == [enabled |-> TRUE, day |-> "EVERYDAY", hour |-> 2, minute |-> 0]

IsPartial == cmd.name \in PartialOps

\* requests of the running process with a given method and path
Count(method, path) ==
    Cardinality({i \in 1..Len(http) : http[i].method = method /\ http[i].path = path})

DepotPosts == {i \in 1..Len(http) : http[i].path = _DEPOT_CONTENT_PATH}

AllOk == \A i \in 1..Len(http) : http[i].ok

LoggedIn ==
    Len(http) >= 1 /\ http[1].method = "POST" /\ http[1].path = SessionPath /\ http[1].ok

\* this process's PUT was accepted
PutAccepted == overwritten /= NoDoc

-----------------------------------------------------------------------------
(* Properties *)

C2_AutoStagePreserved ==
    (IsPartial /\ written /= NoDoc) =>
        /\ written.auto_stage =
              (IF "auto_stage" \in DOMAIN current THEN current.auto_stage ELSE TRUE)
        /\ (PutAccepted /\ overwritten = current /\ lastWriter = cmd.name
               /\ "auto_stage" \in DOMAIN overwritten) =>
              remote.auto_stage = overwritten.auto_stage

C2_Witness ==
    /\ IsPartial
    /\ PutAccepted
    /\ overwritten = current
    /\ lastWriter = cmd.name
    /\ "auto_stage" \in DOMAIN current
    /\ current.auto_stage = FALSE
    /\ remote.auto_stage = FALSE

\* the source the command asks for, read off the command line / config
WantedSource == IF cmd.name = "apply" THEN cmd.cfg.source
                ELSE [source_type |-> cmd.type, umds_url |-> cmd.umds_url]

WantsDepot ==
    /\ cmd.name \in {"apply", "set-source"}
    /\ WantedSource.source_type = "UMDS"
    /\ WantedSource.umds_url /= ""

\* C3: configure_download_settings posts exactly one depot registration,
\* right after the accepted PUT and carrying the given URL, when the source
\* is UMDS with a non-empty URL, and none otherwise; a failed registration
\* raises nothing, the policy is re-read and returned.
C3_DepotRegistration ==
    /\ Cardinality(DepotPosts) <= 1
    /\ \A i \in DepotPosts :
          /\ WantsDepot
          /\ http[i].method = "POST"
          /\ http[i].arg = WantedSource.umds_url
          /\ i > 1 /\ http[i-1].method = "PUT" /\ http[i-1].ok
          /\ pc = "reread" => err = "none"
          /\ i < Len(http) =>
                /\ http[i+1].method = "GET" /\ http[i+1].path = _UPDATE_POLICY_PATH
                /\ http[i+1].ok => (err = "none" /\ result /= NoDoc)
                /\ (http[i+1].ok /\ pc = "exited") => (raised = "none" /\ exitCode = 0)
    /\ (PutAccepted /\ pc \in {"reread", "release", "exited"}) =>
          (DepotPosts /= {} <=> WantsDepot)

C3_Witness ==
    /\ pc = "exited"
    /\ \E i \in DepotPosts : ~http[i].ok /\ http[i].arg = DepotUrl
    /\ raised = "none"
    /\ result /= NoDoc

\* C4: the client is entered with login(); once login succeeded, logout()
\* runs exactly once on release, also when the operation raised, and the
\* operation's exception then reaches the caller.
C4_ScopedSession ==
    /\ pc \in {"read", "put", "register", "reread", "release"} =>
          (calls = <<"login">> /\ LoggedIn)
    /\ pc = "exited" =>
          /\ LoggedIn => (calls = <<"login", "logout">> /\ raised = err)
          /\ (calls /= <<>> /\ ~LoggedIn) => (calls = <<"login">> /\ raised = "HTTPError")
          /\ err /= "none" => (LoggedIn /\ exitCode = 1)

C4_Witness ==
    /\ pc = "exited"
    /\ err = "ValueError"
    /\ raised = "ValueError"
    /\ calls = <<"login", "logout">>
    /\ http[Len(http)].method = "DELETE"

\* the proxy the command asks for
WantedProxyEnabled ==
    \/ cmd.name = "set-proxy"
    \/ cmd.name = "apply" /\ cmd.cfg.proxy.enabled

WantedProxyUser == IF cmd.name = "apply" THEN cmd.cfg.proxy.username ELSE cmd.proxy_user

\* C5: the PUT body has a proxy key exactly when the desired proxy is
\* enabled, and inside it username and password exactly when the username
\* is non-empty; nothing of a disabled proxy is transmitted.
C5_ProxyKey ==
    written /= NoDoc =>
        /\ "proxy" \in DOMAIN written <=> WantedProxyEnabled
        /\ "proxy" \in DOMAIN written =>
              /\ written.proxy.enabled
              /\ "username" \in DOMAIN written.proxy <=> WantedProxyUser /= ""
              /\ "password" \in DOMAIN written.proxy <=> WantedProxyUser /= ""
              /\ DOMAIN written.proxy \subseteq
                    {"enabled", "server", "port", "username", "password"}
        /\ DOMAIN written \subseteq {"custom_URL", "auto_stage", "check_schedule",
                                     "username", "password", "proxy"}

C5_Witness ==
    /\ cmd.name = "apply"
    /\ cmd.cfg.proxy.server = "old.corp.com"
    /\ ~cmd.cfg.proxy.enabled
    /\ PutAccepted
    /\ "proxy" \notin DOMAIN written

\* C6: when another client's write has landed between the read and the
\* write of a partial-update operation, the accepted PUT raises nothing and
\* replaces the remote policy by the document built from the stale read.
C6_LastWriterWins ==
    [][(/\ pc = "put"
        /\ IsPartial
        /\ remote /= current
        /\ http' = Append(http, Req("PUT", _UPDATE_POLICY_PATH, "", TRUE)))
       => (/\ err' = "none"
           /\ pc' \in {"register", "reread"}
           /\ remote' = written'
           /\ remote'.auto_stage =
                 (IF "auto_stage" \in DOMAIN current THEN current.auto_stage ELSE TRUE)
           /\ overwritten' = remote)]_vars

C6_Witness ==
    /\ IsPartial
    /\ PutAccepted
    /\ overwritten /= current
    /\ lastWriter = cmd.name
    /\ remote = written
    /\ "auto_stage" \in DOMAIN current
    /\ overwritten.auto_stage /= current.auto_stage
    /\ remote.auto_stage = current.auto_stage

\* the requests between the session POST and the session DELETE
OpCalls == Len(http) - 2

Finished == pc = "exited" /\ raised = "none" /\ AllOk /\ calls /= <<>>

SingleSession ==
    /\ calls = <<"login", "logout">>
    /\ Len(http) >= 3
    /\ http[1].method = "POST" /\ http[1].path = SessionPath
    /\ http[Len(http)].method = "DELETE" /\ http[Len(http)].path = SessionPath
    /\ Count("POST", SessionPath) = 1
    /\ Count("DELETE", SessionPath) = 1

\* C7 as stated: one login, one to three HTTP calls of the operation, one
\* logout, for every subcommand and argument value.
C7_OneToThreeCalls ==
    Finished => (SingleSession /\ OpCalls \in 1..3)

\* C7 as amended: one login, one to four HTTP calls of the operation, one
\* logout; four exactly for set-source with type UMDS and a non-empty URL
\* (GET, PUT, depot POST, GET).
C7_OneToFourCalls ==
    Finished =>
        /\ SingleSession
        /\ OpCalls \in 1..4
        /\ OpCalls = 4 <=> (cmd.name = "set-source" /\ WantsDepot)
        /\ OpCalls = 1 <=> cmd.name = "show"
        /\ OpCalls = 2 <=>
              (cmd.name \in {"enable-auto", "disable-auto"} \/ (cmd.name = "apply" /\ ~WantsDepot))

C7_Witness ==
    /\ Finished
    /\ cmd.name = "set-source"
    /\ WantsDepot
    /\ OpCalls = 4
    /\ http[4].path = _DEPOT_CONTENT_PATH

MissingIn(c) == c.host = "" \/ c.username = "" \/ c.password = ""

\* host, username or password missing: from flags and environment, and for
\* apply from the vcenter block of the config file as well
CredentialsMissing ==
    /\ pc \notin {"start", "api"}
    /\ MissingIn(given)
    /\ cmd.name = "apply" => (cmd.cfg.exists /\ MissingIn(cmd.cfg.vcenter))

\* C8: with a credential missing, every subcommand exits non-zero without a
\* login attempt or any other network call.
C8_NoNetworkWithoutCredentials ==
    CredentialsMissing =>
        /\ calls = <<>>
        /\ http = <<>>
        /\ pc = "exited" => exitCode /= 0

InRange(c) ==
    /\ c.day \in {"EVERYDAY", "MONDAY", "TUESDAY", "WEDNESDAY", "THURSDAY",
                  "FRIDAY", "SATURDAY", "SUNDAY"}
    /\ c.hour \in 0..23
    /\ c.minute \in 0..59

PolicyRequests == {i \in 1..Len(http) : http[i].path = _UPDATE_POLICY_PATH}

\* C9 as stated: set_download_schedule with an invalid day, hour or minute
\* raises without having issued any request to the appliance.
C9_NoRequestBeforeValidation ==
    (cmd.name = "set-schedule" /\ ~InRange(cmd)) =>
        (PolicyRequests = {} /\ DepotPosts = {} /\ written = NoDoc)

\* C9 as amended: with an invalid day, hour or minute the construction of the
\* DownloadSchedule raises ValueError right after set_download_schedule has
\* read the policy: the one GET is the only request of the operation, no PUT
\* or POST follows and the remote policy is not written; with in-range
\* values the construction succeeds and the operation goes on to its PUT.
C9_FailsBeforeAnyWrite ==
    cmd.name = "set-schedule" =>
        /\ ~InRange(cmd) =>
              /\ written = NoDoc /\ overwritten = NoDoc
              /\ DepotPosts = {}
              /\ \A i \in PolicyRequests : http[i].method = "GET"
              /\ Cardinality(PolicyRequests) <= 1
              /\ pc \notin {"put", "register", "reread"}
              /\ (\E i \in PolicyRequests : http[i].ok) => err = "ValueError"
              /\ (pc = "exited" /\ LoggedIn) => (raised /= "none" /\ exitCode = 1)
        /\ (InRange(cmd) /\ \E i \in PolicyRequests : http[i].ok) =>
              /\ err /= "ValueError"
              /\ current /= NoDoc
              /\ pc = "put" \/ written /= NoDoc

C9_Witness ==
    /\ cmd.name = "set-schedule"
    /\ cmd.hour = 24
    /\ pc = "exited"
    /\ raised = "ValueError"
    /\ Len(http) = 3
    /\ http[2].method = "GET" /\ http[2].ok
    /\ written = NoDoc

\* C10: logout() sends the session DELETE and clears the token only when a
\* session is active; without one it sends nothing and changes nothing, and
\* the DELETEs never outnumber the successful logins.
C10_LogoutIdempotent ==
    /\ [](Count("DELETE", SessionPath)
             <= Cardinality({i \in 1..Len(http) :
                               http[i].method = "POST" /\ http[i].path = SessionPath /\ http[i].ok}))
    /\ [][calls' = Append(calls, "logout") =>
             IF session_id /= None /\ session_id /= ""
             THEN /\ Len(http') = Len(http) + 1
                  /\ http'[Len(http')].method = "DELETE"
                  /\ http'[Len(http')].path = SessionPath
                  /\ session_id' = None
             ELSE http' = http /\ session_id' = session_id]_vars

C10_Witness ==
    /\ pc = "api"
    /\ Len(calls) >= 3
    /\ calls[Len(calls)] = "logout"
    /\ calls[Len(calls) - 1] = "logout"
    /\ Count("DELETE", SessionPath) = 1
    /\ session_id = None

====
